---- MODULE Spec2Model ----
(***************************************************************************)
(* Link shortener: the createLink action (schema validation, LinkService,  *)
(* LinkRepository, the links table) and the GET /[shortCode] redirect.     *)
(* Every request is a JavaScript async function: the code between two      *)
(* awaits runs atomically, each awaited database call is one step.         *)
(***************************************************************************)
EXTENDS Integers, Sequences, FiniteSets, TLC

\* ------------------------------------------------------------------ bounds
NumProcs == 2          \* request slots that may be in flight together
MaxRequests == 3       \* requests accepted in one behaviour

\* ------------------------------------------------------- program constants
maxAttemptsFour == 3 + 1   \* (variant: one attempt too many)
maxAttempts == 3       \* generateUniqueShortCode(maxAttempts = 3)
NanoidSize == 8        \* nanoid(8)
MinCodeLen == 3        \* .min(3)
MaxCodeLen == 10       \* .max(10)

Procs == 1..NumProcs

\* ------------------------------------------------------------------ inputs
Lower == {"a", "b", "c", "d", "e", "f", "g", "h", "i", "j", "k", "l", "m",
          "n", "o", "p", "q", "r", "s", "t", "u", "v", "w", "x", "y", "z"}
Upper == {"A", "B", "C", "D", "E", "F", "G", "H", "I", "J", "K", "L", "M",
          "N", "O", "P", "Q", "R", "S", "T", "U", "V", "W", "X", "Y", "Z"}
Digit == {"0", "1", "2", "3", "4", "5", "6", "7", "8", "9"}

\* /^[a-zA-Z0-9-]+$/
CodeRegex(s) == Len(s) >= 1 /\ \A k \in 1..Len(s) : s[k] \in Lower \cup Upper \cup Digit \cup {"-"}

\* nanoid's alphabet is A-Za-z0-9 plus "_" and "-"
NanoidAlphabet == Lower \cup Upper \cup Digit \cup {"_", "-"}

\* an optional string: undefined, or a sequence of characters
Undefined == [present |-> FALSE, value |-> <<>>]
Str(s) == [present |-> TRUE, value |-> s]

\* JavaScript truthiness of an optional string: undefined and "" are falsy
Truthy(o) == o.present /\ o.value # <<>>

\* URLs the requests carry: a scheme ("" when the text is no URL) and the rest
Urls == {[scheme |-> "http", rest |-> "a.com"],
         [scheme |-> "https", rest |-> "b.com"],
         [scheme |-> "ftp", rest |-> "x.com"],
         [scheme |-> "", rest |-> "not a url"]}

\* z.string().url()
IsUrl(u) == u.scheme # ""

\* the refine on new URL(url).protocol
HttpProtocol(u) == u.scheme \in {"http", "https"}

UrlSchemaOk(u) == IsUrl(u) /\ HttpProtocol(u)

\* custom codes the requests carry
CustomCodes == {Undefined,
                Str(<<"a", "b", "c">>),
                Str(<<"a", "b">>),
                Str(<<"a", "_", "c">>),
                Str(<<"a", "b", "c", "d", "e", "f", "g", "h", "i", "j", "k">>),
                Str(<<>>)}

\* (variant: the schema of the inline action, which has no regex)
CodeSchemaNoRegex(o) ==
    ~o.present \/ (Len(o.value) >= 3 /\ Len(o.value) <= 10)

\* shortCode: z.string().min(3).max(10).regex(...).optional()
CodeSchemaOk(o) ==
    ~o.present \/ (/\ Len(o.value) >= MinCodeLen
                   /\ Len(o.value) <= MaxCodeLen
                   /\ CodeRegex(o.value))

createLinkSchema(input) == UrlSchemaOk(input.originalUrl) /\ CodeSchemaOk(input.shortCode)

\* values nanoid(8) may return (a random generator may repeat itself)
GenCodes == {<<"V", "1", "S", "t", "G", "X", "R", "8">>,
             <<"_", "Z", "5", "j", "d", "H", "i", "6">>}

\* path segments GET /[shortCode] is asked for
PathCodes == {Undefined,
              Str(<<"a", "b", "c">>),
              Str(<<"n", "o", "n", "e">>),
              Str(<<"V", "1", "S", "t", "G", "X", "R", "8">>)}

\* the forms posted to createLink: every valid one, and one with each defect
CreateInputs ==
    {i \in {[originalUrl |-> u, shortCode |-> c] : u \in Urls, c \in CustomCodes} :
        \/ createLinkSchema(i)
        \/ i.originalUrl.scheme = "http"
        \/ ~i.shortCode.present}

\* ------------------------------------------------------------------- state
VARIABLES
    table,      \* the links table: a set of rows
    nextId,     \* the AUTOINCREMENT counter of links.id
    now,        \* the clock new Date() reads, in milliseconds
    pc,         \* per request slot: where its handler awaits
    data,       \* per slot: the CreateLinkDTO of createLink
    param,      \* per slot: params.shortCode of GET
    candidate,  \* per slot: the code being looked up / finalShortCode
    attempt,    \* per slot: i of generateUniqueShortCode
    link,       \* per slot: the row GET read
    result,     \* per slot: the response of the finished request
    served,     \* number of 302 responses sent, per link id
    requests    \* requests accepted so far

vars == <<table, nextId, now, pc, data, param, candidate, attempt,
          link, result, served, requests>>

NoData == [originalUrl |-> [scheme |-> "", rest |-> ""], shortCode |-> Undefined]
NoLink == [id |-> 0]
NoResult == [status |-> "NONE"]

\* responses (the status of an HTTP response is written as a string)
InvalidInput == [status |-> "INVALID_INPUT"]
ServiceError(code, message) == [status |-> code, message |-> message]
Created(row) == [status |-> "OK", link |-> row]
Response(status) == [status |-> status]
Redirect(url) == [status |-> "302", target |-> url]

\* ------------------------------------------------------------ links table
\* (variant: click_count declared with default(1))
NewRowDefaultOne(id, url, code, isCustom, createdAt) ==
    [id |-> id, originalUrl |-> url, shortCode |-> code, isCustom |-> isCustom,
     createdAt |-> createdAt, clickCount |-> 1]

\* db/schema.ts: defaults of a new row
NewRow(id, url, code, isCustom, createdAt) ==
    [id |-> id, originalUrl |-> url, shortCode |-> code, isCustom |-> isCustom,
     createdAt |-> createdAt, clickCount |-> 0]

\* (variant: original_url declared without .unique())
UniqueViolationCodeOnly(url, code) ==
    \E r \in table : r.shortCode = code

\* (variant: short_code declared without .unique())
UniqueViolationUrlOnly(url, code) ==
    \E r \in table : r.originalUrl = url

\* the two .unique() columns
UniqueViolation(url, code) ==
    \E r \in table : r.originalUrl = url \/ r.shortCode = code

\* (variant: ne() in place of eq())
findByOriginalUrlNe(url) == {r \in table : r.originalUrl # url}

\* select().from(links).where(eq(links.originalUrl, url)).limit(1)
findByOriginalUrl(url) == {r \in table : r.originalUrl = url}

\* (variant: ne() in place of eq())
findByShortCodeNe(code) == {r \in table : r.shortCode # code}

\* select().from(links).where(eq(links.shortCode, shortCode)).limit(1)
findByShortCode(code) == {r \in table : r.shortCode = code}

\* createdAt: $defaultFn(() => new Date()). The clock never runs backwards and
\* two inserts may fall in the same millisecond; time is counted from the
\* first insert, and only the order of the timestamps matters
ClockReadings == IF table = {} THEN {now} ELSE {now, now + 1}

\* isCustom: !!data.shortCode, on the DTO the repository is given
RepoIsCustom(dto) == Truthy(dto.shortCode)

\* ------------------------------------------------------------------- init
\* the database outlives the process: it starts empty, or holding a link an
\* earlier run created (what Insert writes for a custom code)
InitTables ==
    {{}, {NewRow(1, [scheme |-> "http", rest |-> "a.com"], <<"a", "b", "c">>, TRUE, 0)}}

Init ==
    /\ table \in InitTables
    /\ nextId = Cardinality(table) + 1
    /\ now = 0
    /\ pc = [p \in Procs |-> "idle"]
    /\ data = [p \in Procs |-> NoData]
    /\ param = [p \in Procs |-> Undefined]
    /\ candidate = [p \in Procs |-> <<>>]
    /\ attempt = [p \in Procs |-> 0]
    /\ link = [p \in Procs |-> NoLink]
    /\ result = [p \in Procs |-> NoResult]
    /\ served = [id \in {r.id : r \in table} |-> 0]
    /\ requests = 0

\* a slot leaves its handler: the locals die, the response stays
Finish(p, res) ==
    /\ pc' = [pc EXCEPT ![p] = "done"]
    /\ result' = [result EXCEPT ![p] = res]
    /\ data' = [data EXCEPT ![p] = NoData]
    /\ param' = [param EXCEPT ![p] = Undefined]
    /\ candidate' = [candidate EXCEPT ![p] = <<>>]
    /\ attempt' = [attempt EXCEPT ![p] = 0]
    /\ link' = [link EXCEPT ![p] = NoLink]

Free(p) == pc[p] \in {"idle", "done"}

\* a request takes the lowest free slot (the slots are interchangeable)
Accept(p) == Free(p) /\ \A q \in Procs : q < p => ~Free(q)

\* what an awaited database call throws
DbDown == "database unavailable"
ConstraintFailed == "UNIQUE constraint failed"

\* each awaited database call either answers or throws DbDown
DbAnswers == BOOLEAN

\* ------------------------------------------------- createLink (the action)
\* actions/index.ts createLink: the schema, then linkService.createLink
CreateRequest(p, input) ==
    /\ Accept(p)
    /\ requests < MaxRequests
    /\ requests' = requests + 1
    /\ IF createLinkSchema(input)
         THEN /\ pc' = [pc EXCEPT ![p] = "findUrl"]
              /\ data' = [data EXCEPT ![p] = input]
              /\ result' = [result EXCEPT ![p] = NoResult]
              /\ UNCHANGED <<param, candidate, attempt, link>>
         ELSE Finish(p, InvalidInput)
    /\ UNCHANGED <<table, nextId, now, served>>

\* (variant: the catch answers with the code of a duplicate URL)
UnexpectedAsConflict(error) ==
    [status |-> "CONFLICT", message |-> "Error al crear el enlace", caught |-> error]

\* the catch of LinkService.createLink for an error that is no LinkServiceError
Unexpected(error) ==
    [status |-> "INTERNAL_SERVER_ERROR", message |-> "Error al crear el enlace",
     caught |-> error]

\* the catch of GET
ServerError(error) == [status |-> "500", caught |-> error]

\* the throw that ends generateUniqueShortCode
Exhausted == ServiceError("INTERNAL_SERVER_ERROR", "No se pudo generar un codigo unico")

\* (variant: the custom code is looked up before the URL)
FindUrlCodeFirst(p) ==
    /\ pc[p] = "findUrl"
    /\ \E up \in DbAnswers : IF ~up
         THEN Finish(p, Unexpected(DbDown))
         ELSE IF Truthy(data[p].shortCode) /\ findByShortCode(data[p].shortCode.value) # {}
           THEN Finish(p, ServiceError("BAD_REQUEST", "Este codigo personalizado ya esta en uso"))
           ELSE IF findByOriginalUrl(data[p].originalUrl) # {}
             THEN Finish(p, ServiceError("CONFLICT", "Esta URL ya esta registrada"))
             ELSE IF ~Truthy(data[p].shortCode)
               THEN /\ \E c \in GenCodes : candidate' = [candidate EXCEPT ![p] = c]
                    /\ attempt' = [attempt EXCEPT ![p] = 0]
                    /\ pc' = [pc EXCEPT ![p] = "genLookup"]
                    /\ UNCHANGED <<data, param, link, result>>
               ELSE /\ candidate' = [candidate EXCEPT ![p] = data[p].shortCode.value]
                    /\ pc' = [pc EXCEPT ![p] = "findCode"]
                    /\ UNCHANGED <<data, param, attempt, link, result>>
    /\ UNCHANGED <<table, nextId, now, served, requests>>

\* (variant: <= in the loop test)
LoopGoesOnInclusive(i) == i <= maxAttempts

\* for (let i = 0; i < maxAttempts; i++)
LoopGoesOn(i) == i < maxAttempts

\* LinkService.createLink, step 1: await findByOriginalUrl, then the
\* synchronous code up to the next await
FindUrl(p) ==
    /\ pc[p] = "findUrl"
    /\ \E up \in DbAnswers : IF ~up
         THEN Finish(p, Unexpected(DbDown))
         ELSE IF findByOriginalUrl(data[p].originalUrl) # {}
           THEN Finish(p, ServiceError("CONFLICT", "Esta URL ya esta registrada"))
           ELSE IF ~Truthy(data[p].shortCode)
             THEN IF LoopGoesOn(0)
                    THEN /\ \E c \in GenCodes : candidate' = [candidate EXCEPT ![p] = c]
                         /\ attempt' = [attempt EXCEPT ![p] = 0]
                         /\ pc' = [pc EXCEPT ![p] = "genLookup"]
                         /\ UNCHANGED <<data, param, link, result>>
                    ELSE Finish(p, Exhausted)
             ELSE /\ candidate' = [candidate EXCEPT ![p] = data[p].shortCode.value]
                  /\ pc' = [pc EXCEPT ![p] = "findCode"]
                  /\ UNCHANGED <<data, param, attempt, link, result>>
    /\ UNCHANGED <<table, nextId, now, served, requests>>

\* generateUniqueShortCode: await findByShortCode(candidate), then i++ and
\* either the next nanoid(8) or the throw after the loop
GenLookup(p) ==
    /\ pc[p] = "genLookup"
    /\ \E up \in DbAnswers : IF ~up
         THEN Finish(p, Unexpected(DbDown))
         ELSE IF findByShortCode(candidate[p]) = {}
           THEN /\ pc' = [pc EXCEPT ![p] = "insert"]
                /\ UNCHANGED <<data, param, candidate, attempt, link, result>>
           ELSE IF LoopGoesOn(attempt[p] + 1)
             THEN /\ \E c \in GenCodes : candidate' = [candidate EXCEPT ![p] = c]
                  /\ attempt' = [attempt EXCEPT ![p] = attempt[p] + 1]
                  /\ UNCHANGED <<pc, data, param, link, result>>
             ELSE Finish(p, Exhausted)
    /\ UNCHANGED <<table, nextId, now, served, requests>>

\* LinkService.createLink, step 2 for a custom code: await findByShortCode
FindCode(p) ==
    /\ pc[p] = "findCode"
    /\ \E up \in DbAnswers : IF ~up
         THEN Finish(p, Unexpected(DbDown))
         ELSE IF findByShortCode(candidate[p]) # {}
           THEN Finish(p, ServiceError("BAD_REQUEST", "Este codigo personalizado ya esta en uso"))
           ELSE /\ pc' = [pc EXCEPT ![p] = "insert"]
                /\ UNCHANGED <<data, param, candidate, attempt, link, result>>
    /\ UNCHANGED <<table, nextId, now, served, requests>>

\* LinkService.createLink, step 3: await linkRepository.create; the insert
\* throws on an outage and on a violated unique column
Insert(p) ==
    /\ pc[p] = "insert"
    /\ \E up \in DbAnswers : IF ~up \/ UniqueViolation(data[p].originalUrl, candidate[p])
         THEN /\ Finish(p, Unexpected(IF up THEN ConstraintFailed ELSE DbDown))
              /\ UNCHANGED <<table, nextId, now, served>>
         ELSE \E t \in ClockReadings :
                LET dto == [originalUrl |-> data[p].originalUrl,
                            shortCode |-> Str(candidate[p])]
                    row == NewRow(nextId, dto.originalUrl, dto.shortCode.value,
                                  RepoIsCustom(dto), t)
                IN /\ table' = table \cup {row}
                   /\ nextId' = nextId + 1
                   /\ now' = t
                   /\ served' = [id \in DOMAIN served \cup {row.id} |->
                                   IF id = row.id THEN 0 ELSE served[id]]
                   /\ Finish(p, Created(row))
    /\ UNCHANGED requests

\* ------------------------------------------------------- GET /[shortCode]
\* GET: the params check before the first await
ResolveRequest(p, o) ==
    /\ Accept(p)
    /\ requests < MaxRequests
    /\ requests' = requests + 1
    /\ IF ~Truthy(o)
         THEN Finish(p, Response("400"))
         ELSE /\ pc' = [pc EXCEPT ![p] = "lookup"]
              /\ param' = [param EXCEPT ![p] = o]
              /\ result' = [result EXCEPT ![p] = NoResult]
              /\ UNCHANGED <<data, candidate, attempt, link>>
    /\ UNCHANGED <<table, nextId, now, served>>

\* (variant: the where clause forgotten)
GetSelectAll(code) == table

\* GET: db.select().from(links).where(eq(links.shortCode, shortCode))
GetSelect(code) == {r \in table : r.shortCode = code}

\* GET: await the select; no row is a 404
ResolveLookup(p) ==
    /\ pc[p] = "lookup"
    /\ \E up \in DbAnswers : IF ~up
         THEN Finish(p, ServerError(DbDown))
         ELSE LET rows == GetSelect(param[p].value)
              IN IF rows = {}
                   THEN Finish(p, Response("404"))
                   ELSE /\ \E r \in rows : link' = [link EXCEPT ![p] = r]
                        /\ pc' = [pc EXCEPT ![p] = "update"]
                        /\ UNCHANGED <<data, param, candidate, attempt, result>>
    /\ UNCHANGED <<table, nextId, now, served, requests>>

\* (variant: the + 1 forgotten)
NewClickCountSame(l) == l.clickCount

\* .set({ clickCount: link.clickCount + 1 }), from the row read earlier
NewClickCount(l) == l.clickCount + 1

\* (variant: the where clause forgotten)
UpdateWhereAll(r, l) == TRUE

\* .where(eq(links.id, link.id))
UpdateWhere(r, l) == r.id = l.id

\* GET: await db.update(links).set(...).where(eq(links.id, link.id)), then
\* redirect(link.originalUrl, 302); a throw lands in the catch (500)
ResolveUpdate(p) ==
    /\ pc[p] = "update"
    /\ \E up \in DbAnswers : IF ~up
         THEN /\ Finish(p, ServerError(DbDown))
              /\ UNCHANGED <<table, served>>
         ELSE /\ table' = {IF UpdateWhere(r, link[p])
                             THEN [r EXCEPT !.clickCount = NewClickCount(link[p])]
                             ELSE r : r \in table}
              /\ served' = [served EXCEPT ![link[p].id] = @ + 1]
              /\ Finish(p, Redirect(link[p].originalUrl))
    /\ UNCHANGED <<nextId, now, requests>>

\* ---------------------------------------------------------------- getLinks
\* LinkSummary: the columns findAll selects
Summary(r) == [id |-> r.id, originalUrl |-> r.originalUrl, shortCode |-> r.shortCode]

\* the rows in an order that ascends by createdAt; the query names no second
\* sort key, so rows with equal createdAt may come in any order
OrderedByCreatedAt ==
    {s \in [1..Cardinality(table) -> table] :
        /\ \A i, j \in DOMAIN s : i # j => s[i] # s[j]
        /\ \A i, j \in DOMAIN s : i < j => s[i].createdAt <= s[j].createdAt}

\* LinkRepository.findAll: select id, originalUrl, shortCode ... orderBy(createdAt)
findAll == {[i \in DOMAIN s |-> Summary(s[i])] : s \in OrderedByCreatedAt}

\* the array getLinks returns
Links(list) == [status |-> "LINKS", links |-> list]

\* the catch of LinkService.getAllLinks
ListFailed(error) ==
    [status |-> "INTERNAL_SERVER_ERROR", message |-> "Error al obtener enlaces",
     caught |-> error]

\* actions/index.ts getLinks: no input, then linkService.getAllLinks
ListRequest(p) ==
    /\ Accept(p)
    /\ requests < MaxRequests
    /\ requests' = requests + 1
    /\ pc' = [pc EXCEPT ![p] = "list"]
    /\ result' = [result EXCEPT ![p] = NoResult]
    /\ UNCHANGED <<table, nextId, now, served, data, param, candidate, attempt, link>>

\* LinkService.getAllLinks: await linkRepository.findAll
ListFind(p) ==
    /\ pc[p] = "list"
    /\ \E up \in DbAnswers : IF ~up
         THEN Finish(p, ListFailed(DbDown))
         ELSE \E list \in findAll : Finish(p, Links(list))
    /\ UNCHANGED <<table, nextId, now, served, requests>>

\* ------------------------------------------------------------ specification
Next ==
    \/ \E p \in Procs : \E input \in CreateInputs : CreateRequest(p, input)
    \/ \E p \in Procs : FindUrl(p)
    \/ \E p \in Procs : GenLookup(p)
    \/ \E p \in Procs : FindCode(p)
    \/ \E p \in Procs : Insert(p)
    \/ \E p \in Procs : \E o \in PathCodes : ResolveRequest(p, o)
    \/ \E p \in Procs : ResolveLookup(p)
    \/ \E p \in Procs : ResolveUpdate(p)

Spec == Init /\ [][Next]_vars

\* the same requests together with getLinks, which reads the table only
ListNext ==
    \/ \E p \in Procs : \E input \in CreateInputs : CreateRequest(p, input)
    \/ \E p \in Procs : FindUrl(p)
    \/ \E p \in Procs : GenLookup(p)
    \/ \E p \in Procs : FindCode(p)
    \/ \E p \in Procs : Insert(p)
    \/ \E p \in Procs : \E o \in PathCodes : ResolveRequest(p, o)
    \/ \E p \in Procs : ResolveLookup(p)
    \/ \E p \in Procs : ResolveUpdate(p)
    \/ \E p \in Procs : ListRequest(p)
    \/ \E p \in Procs : ListFind(p)

ListSpec == Init /\ [][ListNext]_vars

\* the event loop resumes every handler whose awaited call has settled, and
\* every database call settles (it answers or it throws)
Resume(p) ==
    \/ FindUrl(p)
    \/ GenLookup(p)
    \/ FindCode(p)
    \/ Insert(p)
    \/ ResolveLookup(p)
    \/ ResolveUpdate(p)

Fairness == \A p \in Procs : WF_vars(Resume(p))

FairSpec == Spec /\ Fairness

\* requests served one after the other: at most one handler is in flight
OneInFlight == \A p, q \in Procs : p # q => Free(p) \/ Free(q)

SeqNext ==
    \/ \E p \in Procs : \E input \in CreateInputs : CreateRequest(p, input) /\ OneInFlight'
    \/ \E p \in Procs : FindUrl(p) /\ OneInFlight'
    \/ \E p \in Procs : GenLookup(p) /\ OneInFlight'
    \/ \E p \in Procs : FindCode(p) /\ OneInFlight'
    \/ \E p \in Procs : Insert(p) /\ OneInFlight'
    \/ \E p \in Procs : \E o \in PathCodes : ResolveRequest(p, o) /\ OneInFlight'
    \/ \E p \in Procs : ResolveLookup(p) /\ OneInFlight'
    \/ \E p \in Procs : ResolveUpdate(p) /\ OneInFlight'

SeqSpec == Init /\ [][SeqNext]_vars

TypeOK ==
    /\ nextId = Cardinality(table) + 1
    /\ requests \in 0..MaxRequests
    /\ \A p \in Procs : pc[p] \in {"idle", "findUrl", "genLookup", "findCode",
                                   "insert", "lookup", "update", "list", "done"}
    /\ \A c \in GenCodes : Len(c) = NanoidSize /\ \A k \in 1..Len(c) : c[k] \in NanoidAlphabet
    /\ \A p \in Procs : attempt[p] \in 0..(maxAttempts - 1)

\* ------------------------------------------------------------------ helpers
\* the response res reports that the handler caught the error err
Caught(res, err) == "caught" \in DOMAIN res /\ res.caught = err

\* slot p took a step of its handler
Stepped(p) == pc'[p] # pc[p] \/ attempt'[p] # attempt[p]

UrlStored(url) == \E r \in table : r.originalUrl = url
CodeStored(code) == \E r \in table : r.shortCode = code

\* the row with identifier id, before and after the step
RowOf(id) == CHOOSE r \in table : r.id = id
RowOfNext(id) == CHOOSE r \in table' : r.id = id

\* ------------------------------------------------------------------- claims
\* C1: in every reachable state, whatever the interleaving of the createLink
\* requests, no two rows share an originalUrl and no two rows share a
\* shortCode.
C1_Unique ==
    \A r1, r2 \in table :
        r1 # r2 => r1.originalUrl # r2.originalUrl /\ r1.shortCode # r2.shortCode

\* C1 witness: two rows are stored and a racing insert was turned down by a
\* unique column.
C1_Witness ==
    /\ Cardinality(table) = 2
    /\ \E p \in Procs : Caught(result[p], ConstraintFailed)

\* C2: with requests served one after the other, a GET for a stored code
\* whose database calls answer ends in a redirect to the originalUrl of the row
\* with that shortCode, and that row's clickCount rises by exactly 1 while
\* every other row stays as it is.
C2_ResolveKnown ==
    [][\A p \in Procs :
          /\ (pc[p] = "lookup" /\ Stepped(p) /\ CodeStored(param[p].value))
                => \/ Caught(result'[p], DbDown)
                   \/ /\ pc'[p] = "update"
                      /\ link'[p] \in table
                      /\ link'[p].shortCode = param[p].value
          /\ (pc[p] = "update" /\ Stepped(p))
                => \/ Caught(result'[p], DbDown)
                   \/ /\ result'[p] = Redirect(RowOf(link[p].id).originalUrl)
                      /\ RowOf(link[p].id).shortCode = param[p].value
                      /\ RowOfNext(link[p].id).clickCount = RowOf(link[p].id).clickCount + 1
                      /\ \A r \in table : r.id # link[p].id => r \in table'
      ]_vars

\* C2 witness: two GETs in sequence took a link from 0 to 1 and then to 2.
C2_Witness ==
    \E r \in table : \E p \in Procs :
        /\ r.clickCount = 2
        /\ served[r.id] = 2
        /\ result[p] = Redirect(r.originalUrl)

\* C3: once no GET is between its read and its write, every link's clickCount
\* equals the number of redirects served for it (no increment is lost).
C3_NoLostIncrement ==
    (\A p \in Procs : pc[p] # "update")
        => \A r \in table : r.clickCount = served[r.id]

\* C4: no step lowers a link's clickCount, and no clickCount is negative.
C4_Monotone ==
    [][\A r \in table : \A n \in table' :
          n.id = r.id => n.clickCount >= r.clickCount /\ n.clickCount >= 0]_vars

\* C5: the step of GET that awaits the click update always ends in the
\* redirect to the stored originalUrl, also when the update throws.
C5_RedirectDespiteFailure ==
    [][\A p \in Procs :
          (pc[p] = "update" /\ Stepped(p))
              => result'[p] = Redirect(link[p].originalUrl)]_vars

\* C6: an insert turned down by a unique column is answered with CONFLICT
\* when the originalUrl collided and with BAD_REQUEST when the shortCode
\* collided, never with the internal error of an outage.
C6_RaceIsConflict ==
    [][\A p \in Procs :
          (pc[p] = "insert" /\ Stepped(p) /\ ~Caught(result'[p], DbDown))
              => /\ UrlStored(data[p].originalUrl)
                    => result'[p].status = "CONFLICT"
                 /\ (~UrlStored(data[p].originalUrl) /\ CodeStored(candidate[p]))
                    => result'[p].status = "BAD_REQUEST"]_vars

\* C7: createLink for an originalUrl that is stored, with the lookup
\* answering, ends at once with CONFLICT and leaves the table as it is.
C7_DuplicateUrl ==
    [][\A p \in Procs :
          (pc[p] = "findUrl" /\ Stepped(p) /\ UrlStored(data[p].originalUrl))
              => /\ pc'[p] = "done"
                 /\ result'[p].status = "CONFLICT" \/ Caught(result'[p], DbDown)
                 /\ table' = table]_vars

\* C7 witness: a request was answered CONFLICT while the link it collided
\* with is stored.
C7_Witness ==
    \E p \in Procs : result[p].status = "CONFLICT" /\ table # {}

\* C8: createLink for a new originalUrl with a custom code that is the
\* shortCode of a stored link, with the lookup answering, ends with
\* BAD_REQUEST and leaves the table as it is.
C8_CodeInUse ==
    [][\A p \in Procs :
          (pc[p] = "findCode" /\ Stepped(p) /\ CodeStored(data[p].shortCode.value))
              => /\ pc'[p] = "done"
                 /\ result'[p].status = "BAD_REQUEST" \/ Caught(result'[p], DbDown)
                 /\ table' = table]_vars

\* C8 witness: a request was answered BAD_REQUEST.
C8_Witness ==
    \E p \in Procs : result[p].status = "BAD_REQUEST" /\ table # {}

\* C9: the row an insert creates has isCustom = TRUE exactly when the request
\* carried a custom code.
C9_IsCustom ==
    [][\A p \in Procs :
          (pc[p] = "insert" /\ Stepped(p) /\ result'[p].status = "OK")
              => result'[p].link.isCustom = data[p].shortCode.present]_vars

\* C10: without a custom code createLink looks up at most 3 generated
\* candidates: a free candidate is the code it goes on to insert, a taken one
\* leads to the next candidate, and the third taken one ends the request with
\* the internal error of generateUniqueShortCode, the table untouched.
C10_ThreeAttempts ==
    [][\A p \in Procs :
          /\ (pc[p] = "genLookup" /\ Stepped(p))
              => /\ attempt[p] < 3
                 /\ table' = table
                 /\ \/ Caught(result'[p], DbDown)
                    \/ /\ ~CodeStored(candidate[p])
                       /\ pc'[p] = "insert"
                       /\ candidate'[p] = candidate[p]
                    \/ /\ CodeStored(candidate[p])
                       /\ attempt[p] < 2
                       /\ pc'[p] = "genLookup"
                       /\ attempt'[p] = attempt[p] + 1
                    \/ /\ CodeStored(candidate[p])
                       /\ attempt[p] = 2
                       /\ result'[p] = Exhausted
          /\ (pc[p] = "insert" /\ Stepped(p) /\ result'[p].status = "OK")
              => result'[p].link.shortCode = candidate[p]
      ]_vars

\* C10 witness: a request ran out of candidates.
C10_Witness ==
    \E p \in Procs : result[p] = Exhausted

\* C11 as stated: with requests served one after the other and the database
\* answering, createLink for a valid URL that is not stored always succeeds.
C11_AlwaysSucceeds ==
    [][\A p \in Procs :
          (/\ pc[p] \in {"findUrl", "genLookup", "findCode", "insert"}
           /\ ~UrlStored(data[p].originalUrl)
           /\ pc'[p] = "done"
           /\ ~Caught(result'[p], DbDown))
              => result'[p].status = "OK"]_vars

\* C11 as amended: with requests served one after the other and the database
\* answering, createLink for a valid URL that is not stored either succeeds
\* (the record returned has that originalUrl, the custom code when one was
\* given and clickCount 0, and it is the record a lookup by that URL then
\* finds), or fails with BAD_REQUEST because the custom code is in use, or
\* with the internal error of the exhausted code generation; a failure
\* leaves the table as it is.
C11_SucceedsUnlessCodeTaken ==
    [][\A p \in Procs :
          (/\ pc[p] \in {"findUrl", "genLookup", "findCode", "insert"}
           /\ ~UrlStored(data[p].originalUrl)
           /\ pc'[p] = "done"
           /\ ~Caught(result'[p], DbDown))
              => \/ /\ result'[p].status = "OK"
                    /\ result'[p].link.originalUrl = data[p].originalUrl
                    /\ data[p].shortCode.present
                          => result'[p].link.shortCode = data[p].shortCode.value
                    /\ result'[p].link.clickCount = 0
                    /\ {r \in table' : r.originalUrl = data[p].originalUrl}
                          = {result'[p].link}
                    /\ table' = table \cup {result'[p].link}
                 \/ /\ result'[p].status = "BAD_REQUEST"
                    /\ data[p].shortCode.present
                    /\ CodeStored(data[p].shortCode.value)
                    /\ table' = table
                 \/ /\ result'[p] = Exhausted
                    /\ ~data[p].shortCode.present
                    /\ table' = table
      ]_vars

\* C11 witness: a link with the custom code of its request was created and
\* is the one row stored for its URL, with no click counted.
C11_Witness ==
    \E p \in Procs :
        /\ result[p].status = "OK"
        /\ result[p].link.shortCode = <<"a", "b", "c">>
        /\ result[p].link \in table
        /\ result[p].link.clickCount = 0

\* the forms C12 is about: a scheme other than http and https, or a custom
\* code shorter than 3, longer than 10, or with a character outside
\* A-Z, a-z, 0-9 and "-"
BadForms ==
    {input \in CreateInputs :
        \/ input.originalUrl.scheme \notin {"http", "https"}
        \/ /\ input.shortCode.present
           /\ \/ Len(input.shortCode.value) < 3
              \/ Len(input.shortCode.value) > 10
              \/ \E k \in 1..Len(input.shortCode.value) :
                    input.shortCode.value[k]
                        \notin Lower \cup Upper \cup Digit \cup {"-"}}

\* C12: a form whose originalUrl has another scheme than http or https, or
\* whose custom code is shorter than 3 characters, longer than 10, or holds a
\* character outside A-Z, a-z, 0-9 and "-", is answered with the input error
\* in the step that receives it: no database call is awaited and the table
\* stays as it is.
C12_InvalidInput ==
    [][\A p \in Procs : \A input \in BadForms :
          CreateRequest(p, input)
              => /\ pc'[p] = "done"
                 /\ result'[p] = InvalidInput
                 /\ table' = table]_vars

\* C12 witness: a form was turned down by the schema.
C12_Witness ==
    \E p \in Procs : result[p] = InvalidInput /\ pc[p] = "done"

\* C13: a GET whose code is the shortCode of no row, with the select
\* answering, ends with 404 and leaves every row as it is.
C13_UnknownCode ==
    [][\A p \in Procs :
          (pc[p] = "lookup" /\ Stepped(p) /\ ~CodeStored(param[p].value))
              => /\ pc'[p] = "done"
                 /\ result'[p] = Response("404") \/ Caught(result'[p], DbDown)
                 /\ table' = table]_vars

\* C13 witness: a GET was answered 404 while links are stored.
C13_Witness ==
    \E p \in Procs : result[p] = Response("404") /\ table # {}

\* C14: every step keeps every row with its id, originalUrl, shortCode,
\* isCustom and createdAt; a row's clickCount changes only in the update step
\* of a GET that was asked for that row's shortCode.
C14_Frame ==
    [][\A r \in table :
          /\ \E n \in table' : [n EXCEPT !.clickCount = r.clickCount] = r
          /\ r \notin table'
                => \E p \in Procs : /\ pc[p] = "update"
                                    /\ pc'[p] = "done"
                                    /\ param[p].value = r.shortCode]_vars

\* C14 witness: two links are stored and one of them has been visited.
C14_Witness ==
    /\ Cardinality(table) = 2
    /\ \E r \in table : r.clickCount = 1
    /\ \E r \in table : r.clickCount = 0

\* the elements of a list
Elements(list) == {list[i] : i \in DOMAIN list}

C16_ConflictNamesCode ==
    [][\A p \in Procs :
          (pc[p] = "findUrl" /\ Stepped(p) /\ result'[p].status = "CONFLICT")
              => /\ "shortCode" \in DOMAIN result'[p]
                 /\ \E r \in table : /\ r.originalUrl = data[p].originalUrl
                                     /\ result'[p].shortCode = r.shortCode]_vars

\* C17: under fair scheduling every request that was accepted is answered,
\* and the code generation never starts a fourth lookup.
C17_Completes ==
    /\ [](\A p \in Procs : attempt[p] < 3)
    /\ \A p \in Procs : (pc[p] \notin {"idle", "done"}) ~> (pc[p] = "done")

\* C17 witness: a request that went through the code generation was answered
\* with the link it created.
C17_Witness ==
    \E p \in Procs :
        /\ pc[p] = "done"
        /\ result[p].status = "OK"
        /\ result[p].link.shortCode \in GenCodes

\* C18: the URL is looked up before any code: a request whose URL is stored
\* and whose custom code is in use too is answered CONFLICT, not BAD_REQUEST,
\* and a request without a custom code whose URL is stored ends without a
\* candidate being generated or looked up.
C18_UrlBeforeCode ==
    [][\A p \in Procs :
          (pc[p] = "findUrl" /\ Stepped(p) /\ UrlStored(data[p].originalUrl)
              /\ ~Caught(result'[p], DbDown))
              => /\ (data[p].shortCode.present /\ CodeStored(data[p].shortCode.value))
                    => result'[p].status = "CONFLICT"
                 /\ ~data[p].shortCode.present
                    => /\ result'[p].status = "CONFLICT"
                       /\ pc'[p] # "genLookup"
                       /\ candidate'[p] = <<>>
                       /\ attempt'[p] = 0]_vars

\* C18 witness: a request waits for its URL lookup while both its URL and
\* its custom code are stored.
C18_Witness ==
    \E p \in Procs :
        /\ pc[p] = "findUrl"
        /\ UrlStored(data[p].originalUrl)
        /\ data[p].shortCode.present
        /\ CodeStored(data[p].shortCode.value)

\* C19: when a database call of createLink (either lookup, or the insert) or
\* the select of GET throws because the database is unavailable, the request
\* ends with the internal error (500 for GET), and the table stays as it is.
C19_OutageIsInternal ==
    [][\A p \in Procs :
          (/\ pc[p] \in {"findUrl", "genLookup", "findCode", "insert", "lookup"}
           /\ Stepped(p)
           /\ Caught(result'[p], DbDown))
              => /\ pc'[p] = "done"
                 /\ result'[p].status =
                       IF pc[p] = "lookup" THEN "500" ELSE "INTERNAL_SERVER_ERROR"
                 /\ table' = table]_vars

\* C19 witness: an insert failed on an outage while a link is stored.
C19_Witness ==
    \E p \in Procs : result[p] = Unexpected(DbDown) /\ table # {}

\* C20: of the createLink requests that race to insert the same new URL, the
\* first insert (its code being free) returns the link, every later one is
\* answered with an error and writes nothing, and the table holds exactly one
\* row for that URL.
C20_OneWinner ==
    [][\A p \in Procs :
          (pc[p] = "insert" /\ Stepped(p) /\ ~Caught(result'[p], DbDown))
              => /\ (~UrlStored(data[p].originalUrl) /\ ~CodeStored(candidate[p]))
                    => /\ result'[p].status = "OK"
                       /\ result'[p].link.originalUrl = data[p].originalUrl
                 /\ UrlStored(data[p].originalUrl)
                    => /\ result'[p].status \in {"INTERNAL_SERVER_ERROR", "CONFLICT",
                                                 "BAD_REQUEST"}
                       /\ table' = table
                 /\ result'[p].status = "OK"
                    => Cardinality({r \in table' : r.originalUrl = data[p].originalUrl}) = 1
                 /\ result'[p].status # "OK"
                    => Cardinality({r \in table' : r.originalUrl = data[p].originalUrl}) <= 1
      ]_vars

\* C20 witness: one of two racing requests has returned its link, the other
\* still waits to insert the same URL under another code.
C20_Witness ==
    \E p, q \in Procs :
        /\ result[p].status = "OK"
        /\ pc[q] = "insert"
        /\ data[q].originalUrl = result[p].link.originalUrl
        /\ candidate[q] # result[p].link.shortCode

====
